---- MODULE Spec2Model ----
(***************************************************************************)
(* Registration intake service: validate -> find-or-create -> notify.      *)
(*                                                                         *)
(* Strings are sequences of one-character strings, so that lengths,        *)
(* e-mail parsing and HTML escaping are computed.  Python's None is None   *)
(* in a string slot and NoneObj in an object (dict) slot.  A dict is a     *)
(* function whose DOMAIN is the set of keys that are present.              *)
(***************************************************************************)
EXTENDS Integers, Sequences, FiniteSets, TLC

VARIABLES
    users,      \* rows of table "users", in insertion order
    mails,      \* background send threads, in the order they were started
    pc,         \* per request thread: position in register/process_registration
    payload,    \* per request thread: the raw JSON payload of the current call
    validated,  \* per request thread: RegisterSchema(**payload).dict()
    user,       \* per request thread: the record save_user returned
    created,    \* per request thread: the flag save_user returned
    session,    \* per request thread: state of the scoped SessionLocal
    result,     \* per request thread: outcome of process_registration
    resp,       \* per request thread: the HTTP response of the route
    enqueueLog, \* per request thread: "Failed to enqueue registration emails" logged
    rid,        \* per request thread: number of the current call
    startCount, \* history: number of rows when the current call started
    nreq,       \* number of calls received so far; also the UTC clock
    normalized  \* per request thread: the values normalize_extra returned

vars == <<users, mails, pc, payload, validated, user, created, session,
          result, resp, enqueueLog, rid, startCount, nreq, normalized>>

-----------------------------------------------------------------------------
(* Bounds *)

NumProcs == 2
MaxRequests == 2

Procs == 1..NumProcs

-----------------------------------------------------------------------------
(* Values *)

None == <<"None">>
NoneObj == [none |-> TRUE]
EmptyDict == [k \in {} |-> None]

ProfileKeys == {"mobile", "qualification", "experience"}

Get(d, k) == IF k \in DOMAIN d THEN d[k] ELSE None

Truthy(s) == s # None /\ s # << >>

Or(a, b) == IF Truthy(a) THEN a ELSE b

-----------------------------------------------------------------------------
(* Field limits of RegisterSchema / ExtraModel *)

NameMinLen == 1
NameMaxLen == 200
MobileMinLen == 10
MobileMaxLen == 20

-----------------------------------------------------------------------------
(* The inputs: names, e-mail addresses, profile values, raw payloads *)

NameAsha == <<"A", "s", "h", "a">>
NameMarkup == <<"<", "b", ">">>
NameEmpty == << >>

EmailAshaUpper == <<"a", "@", "X", ".", "c">>
EmailAsha == <<"a", "@", "x", ".", "c">>
EmailRavi == <<"r", "@", "x", ".", "c">>
EmailNoAt == <<"a", "x", ".", "c">>

Mobile1 == <<"9", "8", "7", "6", "5", "4", "3", "2", "1", "0">>
Mobile2 == <<"9", "1", "2", "3", "4", "5", "6", "7", "8", "0">>
MobileShort == <<"1", "2", "3", "4", "5">>
MobileLong == [i \in 1..(MobileMaxLen + 1) |-> "7"]

QualBSc == <<"B", "S", "c">>
Exp2y == <<"2", "y">>

\* The JSON bodies a request may carry.
Payloads ==
    { [name |-> NameAsha, email |-> EmailAshaUpper, mobile |-> Mobile1],
      [name |-> NameMarkup, email |-> EmailAsha, extra |-> [mobile |-> Mobile2]],
      [name |-> NameAsha, email |-> EmailAsha],
      [name |-> NameAsha, email |-> EmailRavi, mobile |-> Mobile1,
       extra |-> [mobile |-> Mobile2, qualification |-> QualBSc]],
      [name |-> NameEmpty, email |-> EmailNoAt, experience |-> Exp2y],
      [name |-> NameAsha, email |-> EmailRavi, mobile |-> MobileShort],
      [email |-> EmailRavi, extra |-> [mobile |-> MobileLong]] }

-----------------------------------------------------------------------------
(* RegisterSchema: normalisation and field validation *)

\* Mutant: extra[k] = values[k] in place of extra.setdefault(k, values[k]).
NormalizeExtraOverwrite(values) ==
    LET given == IF "extra" \in DOMAIN values THEN values["extra"] ELSE NoneObj
        extra == IF given = NoneObj \/ DOMAIN given = {} THEN EmptyDict ELSE given
        legacy == {k \in ProfileKeys : k \in DOMAIN values /\ values[k] # None}
        merged == [k \in DOMAIN extra \cup legacy |->
                      IF k \in legacy THEN values[k] ELSE extra[k]]
    IN  IF DOMAIN merged # {}
        THEN [k \in DOMAIN values \cup {"extra"} |->
                 IF k = "extra" THEN merged ELSE values[k]]
        ELSE values

\* normalize_extra: legacy top-level fields fill the absent keys of extra.
NormalizeExtra(values) ==
    LET given == IF "extra" \in DOMAIN values THEN values["extra"] ELSE NoneObj
        extra == IF given = NoneObj \/ DOMAIN given = {} THEN EmptyDict ELSE given
        legacy == {k \in ProfileKeys : k \in DOMAIN values /\ values[k] # None}
        merged == [k \in DOMAIN extra \cup legacy |->
                      IF k \in DOMAIN extra THEN extra[k] ELSE values[k]]
    IN  IF DOMAIN merged # {}
        THEN [k \in DOMAIN values \cup {"extra"} |->
                 IF k = "extra" THEN merged ELSE values[k]]
        ELSE values

UpperChars == <<"A", "B", "C", "X">>
LowerChars == <<"a", "b", "c", "x">>

Lower(c) ==
    IF \E i \in 1..Len(UpperChars) : UpperChars[i] = c
    THEN LowerChars[CHOOSE i \in 1..Len(UpperChars) : UpperChars[i] = c]
    ELSE c

AtPositions(e) == {i \in 1..Len(e) : e[i] = "@"}

\* EmailStr: one "@", a local part, a domain with an inner period.
EmailSyntaxOk(e) ==
    /\ Cardinality(AtPositions(e)) = 1
    /\ LET at == CHOOSE i \in AtPositions(e) : TRUE
       IN  /\ at > 1
           /\ at + 1 < Len(e)
           /\ e[at + 1] # "."
           /\ e[Len(e)] # "."
           /\ \E i \in (at + 2)..(Len(e) - 1) : e[i] = "."

\* EmailStr returns the address with its domain in lower case.
NormalizeEmail(e) ==
    LET at == CHOOSE i \in AtPositions(e) : TRUE
    IN  [i \in 1..Len(e) |-> IF i > at THEN Lower(e[i]) ELSE e[i]]

\* Mutant: the mobile field declared without min_length.
MobileErrorsNoMin(loc, v) ==
    IF v = None THEN {}
    ELSE IF Len(v) > MobileMaxLen
         THEN {[loc |-> loc, type |-> "value_error.any_str.max_length"]}
    ELSE {}

MobileErrors(loc, v) ==
    IF v = None THEN {}
    ELSE IF Len(v) < MobileMinLen
         THEN {[loc |-> loc, type |-> "value_error.any_str.min_length"]}
    ELSE IF Len(v) > MobileMaxLen
         THEN {[loc |-> loc, type |-> "value_error.any_str.max_length"]}
    ELSE {}

NameErrors(values) ==
    IF "name" \notin DOMAIN values
    THEN {[loc |-> <<"name">>, type |-> "value_error.missing"]}
    ELSE IF values["name"] = None
         THEN {[loc |-> <<"name">>, type |-> "type_error.none.not_allowed"]}
    ELSE IF Len(values["name"]) < NameMinLen
         THEN {[loc |-> <<"name">>, type |-> "value_error.any_str.min_length"]}
    ELSE IF Len(values["name"]) > NameMaxLen
         THEN {[loc |-> <<"name">>, type |-> "value_error.any_str.max_length"]}
    ELSE {}

EmailErrors(values) ==
    IF "email" \notin DOMAIN values
    THEN {[loc |-> <<"email">>, type |-> "value_error.missing"]}
    ELSE IF values["email"] = None
         THEN {[loc |-> <<"email">>, type |-> "type_error.none.not_allowed"]}
    ELSE IF ~EmailSyntaxOk(values["email"])
         THEN {[loc |-> <<"email">>, type |-> "value_error.email"]}
    ELSE {}

ExtraErrors(values) ==
    IF "extra" \notin DOMAIN values THEN {}
    ELSE IF values["extra"] = NoneObj THEN {}
    ELSE MobileErrors(<<"extra", "mobile">>, Get(values["extra"], "mobile"))

\* The errors RegisterSchema(**payload) raises ValidationError with.
ValidationErrors(raw) ==
    LET values == NormalizeExtra(raw)
    IN  NameErrors(values) \cup EmailErrors(values) \cup ExtraErrors(values)
        \cup MobileErrors(<<"mobile">>, Get(values, "mobile"))

\* ExtraModel(...).dict(): the three declared fields, None when not given.
ExtraDict(extra) == [k \in ProfileKeys |-> Get(extra, k)]

\* RegisterSchema(**payload).dict() of a payload that validates.
ValidatedDict(raw) ==
    LET values == NormalizeExtra(raw)
    IN  [name |-> values["name"],
         email |-> NormalizeEmail(values["email"]),
         extra |-> IF "extra" \in DOMAIN values /\ values["extra"] # NoneObj
                   THEN ExtraDict(values["extra"]) ELSE NoneObj,
         mobile |-> Get(values, "mobile"),
         qualification |-> Get(values, "qualification"),
         experience |-> Get(values, "experience")]

-----------------------------------------------------------------------------
(* save_user: the lookup, the row that is built, the unique index *)

\* Mutant: the existence check is left out.
QueryFirstSkipped(email) == 0

\* session.query(User).filter(User.email == email).first(): index of the row, 0 if none.
QueryFirstByEmail(email) ==
    IF \E i \in 1..Len(users) : users[i].email = email
    THEN CHOOSE i \in 1..Len(users) :
             /\ users[i].email = email
             /\ \A j \in 1..(i - 1) : users[j].email # email
    ELSE 0

\* payload.get("extra") or {}
ExtraOf(data) == IF data.extra = NoneObj THEN EmptyDict ELSE data.extra

ProfileOrder == <<"mobile", "qualification", "experience">>

\* json.dumps of a dict of strings and nulls: the members in field order.
JsonDumps(extra) ==
    [i \in 1..Len(ProfileOrder) |->
        IF ProfileOrder[i] \notin DOMAIN extra THEN << >>
        ELSE IF extra[ProfileOrder[i]] = None
             THEN <<ProfileOrder[i], <<"n", "u", "l", "l">> >>
        ELSE <<ProfileOrder[i], <<"\"">> \o extra[ProfileOrder[i]] \o <<"\"">> >>]

\* Mutant: the primary key is not taken from the table's sequence.
NewUserFixedId(data, id, now) ==
    [id |-> 1,
     name |-> data.name,
     email |-> data.email,
     mobile |-> Get(ExtraOf(data), "mobile"),
     qualification |-> Get(ExtraOf(data), "qualification"),
     experience |-> Get(ExtraOf(data), "experience"),
     extra |-> None,
     created_at |-> now]

\* The row User(...) inserts: the constructor is given the three profile
\* columns; extra_str is computed and not passed, so column extra is NULL.
NewUser(data, id, now) ==
    LET extra == ExtraOf(data)
        extra_str == IF DOMAIN extra # {} THEN JsonDumps(extra) ELSE None
    IN  [id |-> id,
         name |-> data.name,
         email |-> data.email,
         mobile |-> Get(extra, "mobile"),
         qualification |-> Get(extra, "qualification"),
         experience |-> Get(extra, "experience"),
         extra |-> None,
         created_at |-> now]

\* Mutant: column email declared without unique=True.
UniqueViolationOff(email) == FALSE

\* Column email is unique=True: the INSERT of a second row with it fails.
UniqueViolation(email) == \E i \in 1..Len(users) : users[i].email = email

-----------------------------------------------------------------------------
(* process_registration: the two messages and the returned dict *)

\* app.config as create_app fills it from the environment.
AdminAddress == <<"o", "p", "s", "@", "g", ".", "c">>
FromAddress == <<"h", "i", "@", "g", ".", "c">>
Config ==
    [ADMIN_EMAIL |-> AdminAddress,
     FROM_EMAIL |-> FromAddress,
     NO_REPLY_EMAIL |-> None,
     MAIL_DEFAULT_SENDER |-> Or(None, FromAddress)]

DefaultAdmin == <<"c", "o", "n", "n", "e", "c", "t", "@", "g", "m", "i", ".", "c">>
DefaultNoReply == <<"n", "o", "r", "e", "p", "l", "y", "@", "g", "m", "i", ".", "c">>
Dash == <<"-">>

\* html.escape of one character (quote=True).
EscapeChar(c) ==
    IF c = "&" THEN <<"&", "a", "m", "p", ";">>
    ELSE IF c = "<" THEN <<"&", "l", "t", ";">>
    ELSE IF c = ">" THEN <<"&", "g", "t", ";">>
    ELSE IF c = "\"" THEN <<"&", "q", "u", "o", "t", ";">>
    ELSE IF c = "'" THEN <<"&", "#", "x", "2", "7", ";">>
    ELSE <<c>>

RECURSIVE HtmlEscape(_)
HtmlEscape(s) == IF s = << >> THEN << >> ELSE EscapeChar(Head(s)) \o HtmlEscape(Tail(s))

\* esc = lambda s: html.escape(s) if s is not None else "-"
Esc(s) == IF s = None THEN Dash ELSE HtmlEscape(s)

\* Mutant: the submission's mobile is preferred to the row's.
PhoneOfSubmission(u, data) == Or(Get(ExtraOf(data), "mobile"), u.mobile)

\* mobile = user.mobile or (validated.get("extra") or {}).get("mobile")
PhoneOf(u, data) == Or(u.mobile, Get(ExtraOf(data), "mobile"))

\* city = getattr(user, "city", None) or (validated.get("extra") or {}).get("city")
CityOf(u, data) == Or(None, Get(ExtraOf(data), "city"))

\* send_email_async: the Message built from its arguments and the config.
MakeMessage(subject, recipients, html, text, sender, reply_to) ==
    [subject |-> subject,
     recipients |-> recipients,
     sender |-> Or(sender, Or(Config.MAIL_DEFAULT_SENDER,
                              Or(Config.FROM_EMAIL, Config.NO_REPLY_EMAIL))),
     reply_to |-> Or(reply_to, Config.NO_REPLY_EMAIL),
     body |-> text,
     html |-> html]

\* The submitter's message: the substituted values of user_text and user_html.
UserMessage(u, data) ==
    MakeMessage("Welcome to the Global Education Partner Programme!",
                <<u.email>>,
                [name |-> Esc(u.name)],
                [name |-> u.name],
                Or(Config.FROM_EMAIL, Config.MAIL_DEFAULT_SENDER),
                None)

\* The admin's message: the substituted values of admin_text and admin_html.
AdminMessage(u, data) ==
    MakeMessage("New GEP Partner Registration",
                <<Or(Config.ADMIN_EMAIL, DefaultAdmin)>>,
                [name |-> Esc(u.name),
                 phone |-> Esc(Or(PhoneOf(u, data), Dash)),
                 email |-> Esc(u.email),
                 city |-> Esc(Or(CityOf(u, data), Dash))],
                [name |-> u.name,
                 phone |-> Or(PhoneOf(u, data), Dash),
                 email |-> u.email],
                Or(Config.NO_REPLY_EMAIL, DefaultNoReply),
                Or(Config.NO_REPLY_EMAIL, DefaultNoReply))

\* Mutant: the admin's message is sent first.
DispatchOrderSwapped == <<"admin", "user">>

\* The two send_email_async calls, in program order.
DispatchOrder == <<"user", "admin">>

MessageOf(kind, u, data) ==
    IF kind = "user" THEN UserMessage(u, data) ELSE AdminMessage(u, data)

\* datetime.isoformat(): the text of a timestamp.
IsoFormat(t) == [iso |-> t]

\* The dict process_registration returns.
ResultDict(u, created_new) ==
    [kind |-> "ok",
     user |-> [id |-> u.id, name |-> u.name, email |-> u.email,
               mobile |-> u.mobile, qualification |-> u.qualification,
               experience |-> u.experience,
               created_at |-> IsoFormat(u.created_at)],
     created_new |-> created_new]

\* register(): the response of the route for an outcome of process_registration.
RouteResponse(r) ==
    IF r.kind = "ValidationError" THEN [status |-> 422, errors |-> r.errors]
    ELSE IF r.kind # "ok" THEN [status |-> 500, detail |-> "Registration failed"]
    ELSE IF ~r.created_new THEN [status |-> 409, detail |-> "Email already registered"]
    ELSE [status |-> 201, body |-> r.user,
          message |-> "Registered successfully. Confirmation sent to your email."]

-----------------------------------------------------------------------------
(* The state machine *)

NoResult == [kind |-> "none"]
NoResponse == [status |-> 0]

Init ==
    /\ users = << >>
    /\ mails = << >>
    /\ pc = [p \in Procs |-> "idle"]
    /\ payload = [p \in Procs |-> EmptyDict]
    /\ validated = [p \in Procs |-> NoneObj]
    /\ user = [p \in Procs |-> NoneObj]
    /\ created = [p \in Procs |-> FALSE]
    /\ session = [p \in Procs |-> "closed"]
    /\ result = [p \in Procs |-> NoResult]
    /\ resp = [p \in Procs |-> NoResponse]
    /\ enqueueLog = {}
    /\ rid = [p \in Procs |-> 0]
    /\ startCount = [p \in Procs |-> 0]
    /\ nreq = 0
    /\ normalized = [p \in Procs |-> EmptyDict]

\* The call is over: the locals of process_registration go away.
Finish(p, r) ==
    /\ result' = [result EXCEPT ![p] = r]
    /\ resp' = [resp EXCEPT ![p] = RouteResponse(r)]
    /\ pc' = [pc EXCEPT ![p] = "idle"]
    /\ payload' = [payload EXCEPT ![p] = EmptyDict]
    /\ validated' = [validated EXCEPT ![p] = NoneObj]
    /\ user' = [user EXCEPT ![p] = NoneObj]
    /\ created' = [created EXCEPT ![p] = FALSE]
    /\ session' = [session EXCEPT ![p] = "closed"]
    /\ rid' = [rid EXCEPT ![p] = 0]
    /\ startCount' = [startCount EXCEPT ![p] = 0]

\* POST /register arrives: register() reads the JSON body and calls
\* process_registration.
Register(p) ==
    /\ pc[p] = "idle"
    /\ nreq < MaxRequests
    /\ \E raw \in Payloads : payload' = [payload EXCEPT ![p] = raw]
    /\ nreq' = nreq + 1
    /\ rid' = [rid EXCEPT ![p] = nreq + 1]
    /\ startCount' = [startCount EXCEPT ![p] = Len(users)]
    /\ pc' = [pc EXCEPT ![p] = "validate"]
    /\ result' = [result EXCEPT ![p] = NoResult]
    /\ resp' = [resp EXCEPT ![p] = NoResponse]
    /\ UNCHANGED <<users, mails, validated, user, created, session, enqueueLog,
                   normalized>>

\* validated = RegisterSchema(**payload).dict(): a ValidationError leaves
\* process_registration before save_user is called.
Validate(p) ==
    /\ pc[p] = "validate"
    /\ IF ValidationErrors(payload[p]) # {}
       THEN Finish(p, [kind |-> "ValidationError",
                       errors |-> ValidationErrors(payload[p])])
       ELSE /\ validated' = [validated EXCEPT ![p] = ValidatedDict(payload[p])]
            /\ payload' = [payload EXCEPT ![p] = EmptyDict]
            /\ pc' = [pc EXCEPT ![p] = "query"]
            /\ UNCHANGED <<user, created, session, result, resp, rid, startCount>>
    /\ UNCHANGED <<users, mails, enqueueLog, nreq, normalized>>

\* save_user, up to the lookup: an existing row is returned with False.
SaveUserQuery(p) ==
    /\ pc[p] = "query"
    /\ LET i == QueryFirstByEmail(validated[p].email)
       IN  IF i # 0
           THEN /\ user' = [user EXCEPT ![p] = users[i]]
                /\ created' = [created EXCEPT ![p] = FALSE]
                /\ session' = [session EXCEPT ![p] = "closed"]
                /\ pc' = [pc EXCEPT ![p] = "send1"]
           ELSE /\ session' = [session EXCEPT ![p] = "active"]
                /\ pc' = [pc EXCEPT ![p] = "commit"]
                /\ UNCHANGED <<user, created>>
    /\ UNCHANGED <<users, mails, payload, validated, result, resp, enqueueLog,
                   rid, startCount, nreq, normalized>>

\* save_user, session.add/commit/refresh: the INSERT either violates the
\* unique index (rollback, the exception reaches the route) or adds the row.
SaveUserCommit(p) ==
    /\ pc[p] = "commit"
    /\ IF UniqueViolation(validated[p].email)
       THEN /\ Finish(p, [kind |-> "IntegrityError"])
            /\ UNCHANGED users
       ELSE /\ users' = Append(users, NewUser(validated[p], Len(users) + 1, nreq))
            /\ user' = [user EXCEPT ![p] = NewUser(validated[p], Len(users) + 1, nreq)]
            /\ created' = [created EXCEPT ![p] = TRUE]
            /\ session' = [session EXCEPT ![p] = "closed"]
            /\ pc' = [pc EXCEPT ![p] = "send1"]
            /\ UNCHANGED <<payload, validated, result, resp, rid, startCount>>
    /\ UNCHANGED <<mails, enqueueLog, nreq, normalized>>

\* Mutant: no try/except around the two send_email_async calls.
EnqueueUnguarded(p, n) ==
    /\ pc[p] = IF n = 1 THEN "send1" ELSE "send2"
    /\ \E started \in BOOLEAN :
          IF started
          THEN /\ mails' = Append(mails,
                      [req |-> rid[p], kind |-> DispatchOrder[n], state |-> "pending",
                       msg |-> MessageOf(DispatchOrder[n], user[p], validated[p])])
               /\ pc' = [pc EXCEPT ![p] = IF n = 1 THEN "send2" ELSE "return"]
               /\ UNCHANGED <<payload, validated, user, created, session, result,
                              resp, rid, startCount>>
          ELSE /\ Finish(p, [kind |-> "Exception"])
               /\ UNCHANGED mails
    /\ UNCHANGED <<users, enqueueLog, nreq, normalized>>

\* One send_email_async call inside the try block: it starts a thread, or it
\* raises and the except clause logs and skips what is left of the block.
Enqueue(p, n) ==
    /\ pc[p] = IF n = 1 THEN "send1" ELSE "send2"
    /\ \E started \in BOOLEAN :
          IF started
          THEN /\ mails' = Append(mails,
                      [req |-> rid[p], kind |-> DispatchOrder[n], state |-> "pending",
                       msg |-> MessageOf(DispatchOrder[n], user[p], validated[p])])
               /\ pc' = [pc EXCEPT ![p] = IF n = 1 THEN "send2" ELSE "return"]
               /\ UNCHANGED enqueueLog
          ELSE /\ enqueueLog' = enqueueLog \cup {rid[p]}
               /\ pc' = [pc EXCEPT ![p] = "return"]
               /\ UNCHANGED mails
    /\ UNCHANGED <<users, payload, validated, user, created, session, result,
                   resp, rid, startCount, nreq, normalized>>

EnqueueFirst(p) == Enqueue(p, 1)

EnqueueSecond(p) == Enqueue(p, 2)

\* Mutant: the threads of the call are joined before it returns.
ProcessReturnJoined(p) ==
    /\ pc[p] = "return"
    /\ \A i \in 1..Len(mails) : mails[i].req = rid[p] => mails[i].state # "pending"
    /\ Finish(p, ResultDict(user[p], created[p]))
    /\ UNCHANGED <<users, mails, enqueueLog, nreq, normalized>>

\* process_registration returns its dict and the route answers.
ProcessReturn(p) ==
    /\ pc[p] = "return"
    /\ Finish(p, ResultDict(user[p], created[p]))
    /\ UNCHANGED <<users, mails, enqueueLog, nreq, normalized>>

\* _send_async_email in its thread: mail.send succeeds.
MailSent(i) ==
    /\ i \in 1..Len(mails)
    /\ mails[i].state = "pending"
    /\ mails' = [mails EXCEPT ![i].state = "sent"]
    /\ UNCHANGED <<users, pc, payload, validated, user, created, session, result,
                   resp, enqueueLog, rid, startCount, nreq, normalized>>

\* _send_async_email in its thread: mail.send raises; the exception is logged.
MailFailed(i) ==
    /\ i \in 1..Len(mails)
    /\ mails[i].state = "pending"
    /\ mails' = [mails EXCEPT ![i].state = "failed"]
    /\ UNCHANGED <<users, pc, payload, validated, user, created, session, result,
                   resp, enqueueLog, rid, startCount, nreq, normalized>>

Next ==
    \/ \E p \in Procs : Register(p)
    \/ \E p \in Procs : Validate(p)
    \/ \E p \in Procs : SaveUserQuery(p)
    \/ \E p \in Procs : SaveUserCommit(p)
    \/ \E p \in Procs : EnqueueFirst(p)
    \/ \E p \in Procs : EnqueueSecond(p)
    \/ \E p \in Procs : ProcessReturn(p)
    \/ \E i \in 1..(2 * MaxRequests) : MailSent(i)
    \/ \E i \in 1..(2 * MaxRequests) : MailFailed(i)

Spec == Init /\ [][Next]_vars

-----------------------------------------------------------------------------
(* The validator alone, over the shapes a submission's profile can take *)

QualMSc == <<"M", "S", "c">>
Exp5y == <<"5", "y">>

\* What a profile field may carry at the top level and under extra.
LegacyValues ==
    [mobile |-> {None, Mobile1, MobileShort},
     qualification |-> {None, QualBSc, << >>},
     experience |-> {None, Exp2y}]

NestedValues ==
    [mobile |-> {None, Mobile2},
     qualification |-> {None, QualMSc},
     experience |-> {None, Exp5y}]

\* The dicts over any subset of the profile keys, each key with one of its values.
DictsOver(vals) ==
    UNION { {f \in [ks -> UNION {vals[k] : k \in ProfileKeys}] :
                \A k \in ks : f[k] \in vals[k]} : ks \in SUBSET ProfileKeys }

Merge(a, b) ==
    [k \in DOMAIN a \cup DOMAIN b |-> IF k \in DOMAIN b THEN b[k] ELSE a[k]]

\* JSON bodies with a valid name and address: the profile fields at the top
\* level, under extra (absent, null, empty or filled), or both.
ProfilePayloads ==
    LET base == [name |-> NameAsha, email |-> EmailAsha]
        extras == {[extra |-> e] : e \in DictsOver(NestedValues) \cup {NoneObj}}
                     \cup {EmptyDict}
    IN  {Merge(Merge(base, top), ex) : top \in DictsOver(LegacyValues), ex \in extras}

\* One call has arrived with any of these bodies.
InitProfile ==
    /\ users = << >>
    /\ mails = << >>
    /\ pc = [p \in Procs |-> IF p = 1 THEN "normalize" ELSE "idle"]
    /\ \E raw \in ProfilePayloads :
          payload = [p \in Procs |-> IF p = 1 THEN raw ELSE EmptyDict]
    /\ validated = [p \in Procs |-> NoneObj]
    /\ user = [p \in Procs |-> NoneObj]
    /\ created = [p \in Procs |-> FALSE]
    /\ session = [p \in Procs |-> "closed"]
    /\ result = [p \in Procs |-> NoResult]
    /\ resp = [p \in Procs |-> NoResponse]
    /\ enqueueLog = {}
    /\ rid = [p \in Procs |-> IF p = 1 THEN 1 ELSE 0]
    /\ startCount = [p \in Procs |-> 0]
    /\ nreq = 1
    /\ normalized = [p \in Procs |-> EmptyDict]

\* RegisterSchema(**payload), first step: the pre root validator runs on the
\* raw values before any field is validated.
RootValidator(p) ==
    /\ pc[p] = "normalize"
    /\ normalized' = [normalized EXCEPT ![p] = NormalizeExtra(payload[p])]
    /\ pc' = [pc EXCEPT ![p] = "validate"]
    /\ UNCHANGED <<users, mails, payload, validated, user, created, session,
                   result, resp, enqueueLog, rid, startCount, nreq>>

NextProfile ==
    \/ \E p \in Procs : RootValidator(p)
    \/ \E p \in Procs : Validate(p)

SpecProfile == InitProfile /\ [][NextProfile]_vars

-----------------------------------------------------------------------------
(* Properties *)

\* The call of p has a validated payload and has not returned.
Dispatching(p) == pc[p] \in {"send1", "send2", "return"}
InSave(p) == pc[p] \in {"query", "commit"}

\* The rows that hold the e-mail address of p's call.
RowsWith(email) == {i \in 1..Len(users) : users[i].email = email}

\* C1: in every reachable state, whatever the interleaving of register
\* calls, no two persisted rows share an e-mail address.
C1_EmailUnique ==
    \A i, j \in 1..Len(users) : users[i].email = users[j].email => i = j

\* Two calls with the same address raced: one row was inserted, and the
\* other call's INSERT was refused.
C1_Witness ==
    /\ Len(users) = 1
    /\ \E p, q \in Procs :
          /\ p # q
          /\ result[p].kind = "IntegrityError"
          /\ result[q].kind = "ok"
          /\ result[q].created_new

\* C2: a save_user call that passed the existence check and loses the INSERT
\* on the unique index hands back the winner's row with created = False and
\* lets no storage fault reach its caller.
C2_LoserGetsWinner ==
    [][\A p \in Procs :
          (pc[p] = "commit" /\ pc'[p] # "commit"
           /\ RowsWith(validated[p].email) # {})
          => /\ result'[p].kind # "IntegrityError"
             /\ resp'[p].status # 500
             /\ Dispatching(p)'
             /\ created'[p] = FALSE
             /\ user'[p] = users[CHOOSE i \in RowsWith(validated[p].email) : TRUE]]_vars

\* The address of p's call was in the table when the call started.
ExistedAtStart(p) ==
    \E i \in 1..startCount[p] : users[i].email = validated[p].email

RowAtStart(p) ==
    users[CHOOSE i \in 1..startCount[p] : users[i].email = validated[p].email]

\* C3: a valid payload whose e-mail address is already in the table when the
\* call starts adds no row, changes no field of any row, and returns the id
\* and fields of the row that was there, with created_new = false.
C3_DuplicateReturnsExisting ==
    /\ [](\A p \in Procs :
            ((InSave(p) \/ Dispatching(p)) /\ ExistedAtStart(p))
            => /\ pc[p] # "commit"
               /\ Dispatching(p) => (created[p] = FALSE /\ user[p] = RowAtStart(p)))
    /\ [][\A p \in Procs :
            ((InSave(p) \/ Dispatching(p)) /\ ExistedAtStart(p) /\ pc'[p] # pc[p])
            => /\ users' = users
               /\ pc'[p] = "idle"
                  => /\ result'[p].kind = "ok"
                     /\ result'[p].created_new = FALSE
                     /\ result'[p].user.id = RowAtStart(p).id
                     /\ result'[p].user.name = RowAtStart(p).name
                     /\ result'[p].user.email = RowAtStart(p).email
                     /\ result'[p].user.mobile = RowAtStart(p).mobile
                     /\ result'[p].user.qualification = RowAtStart(p).qualification
                     /\ result'[p].user.experience = RowAtStart(p).experience
                     /\ result'[p].user.created_at = IsoFormat(RowAtStart(p).created_at)
                     /\ resp'[p].status = 409]_vars
    /\ [][\A i \in 1..Len(users) : Len(users') >= Len(users) /\ users'[i] = users[i]]_vars

\* A second submission of an address, with another name and mobile, was
\* answered with the first row, which is still the only row.
C3_Witness ==
    /\ Len(users) = 1
    /\ users[1].name = NameAsha
    /\ users[1].mobile = Mobile1
    /\ nreq = 2
    /\ \E p \in Procs :
          /\ pc[p] = "idle"
          /\ result[p].kind = "ok"
          /\ result[p].created_new = FALSE
          /\ result[p].user.id = 1
          /\ result[p].user.mobile = Mobile1
    /\ \E i \in 1..Len(mails) : mails[i].req = 2

\* C4 as claimed: a valid payload whose address is in no row when the call
\* starts makes that call persist exactly one row and return created_new =
\* true: no such call fails on the INSERT, and once it is past save_user it
\* holds a row of its own making with created = True.
C4_NewAtStartCreates ==
    \A p \in Procs :
        /\ result[p].kind # "IntegrityError"
        /\ (Dispatching(p) /\ ~ExistedAtStart(p))
           => /\ created[p]
              /\ Cardinality({i \in (startCount[p] + 1)..Len(users) :
                                 users[i] = user[p]}) = 1

\* C4 amended: a valid payload whose address is in no row when the call's
\* INSERT reaches the table makes that call persist exactly one row, with a
\* fresh id and the current time, and return created_new = true.
C4_NewAtInsertCreates ==
    /\ [][\A p \in Procs :
            (pc[p] = "commit" /\ pc'[p] # "commit"
             /\ \A i \in 1..Len(users) : users[i].email # validated[p].email)
            => /\ Len(users') = Len(users) + 1
               /\ \A i \in 1..Len(users) : users'[i] = users[i]
               /\ LET row == users'[Len(users')]
                  IN  /\ row.email = validated[p].email
                      /\ row.name = validated[p].name
                      /\ \A i \in 1..Len(users) : users[i].id # row.id
                      /\ row.created_at = nreq
                      /\ user'[p] = row
                      /\ created'[p] = TRUE
                      /\ pc'[p] = "send1"]_vars
    /\ [][\A p \in Procs :
            (pc'[p] # pc[p] /\ pc[p] # "commit") => users' = users]_vars
    /\ [][\A p \in Procs :
            (Dispatching(p) /\ created[p] /\ pc'[p] # pc[p])
            => /\ created'[p] \/ pc'[p] = "idle"
               /\ pc'[p] = "idle"
                  => /\ result'[p].kind = "ok"
                     /\ result'[p].created_new
                     /\ result'[p].user.id = user[p].id
                     /\ resp'[p].status = 201]_vars

\* Two calls have each inserted a row, the second while the first row was
\* there, and a call has returned created_new = true.
C4_Witness ==
    /\ Len(users) = 2
    /\ users[1].id # users[2].id
    /\ \E p \in Procs : result[p].kind = "ok" /\ result[p].created_new
                          /\ result[p].user.id = 2

\* The rules RegisterSchema declares for a payload.
WellFormed(raw) ==
    /\ "name" \in DOMAIN raw
    /\ Len(raw["name"]) \in NameMinLen..NameMaxLen
    /\ "email" \in DOMAIN raw
    /\ EmailSyntaxOk(raw["email"])
    /\ \A k \in {"mobile"} \cap DOMAIN raw :
          raw[k] = None \/ Len(raw[k]) \in MobileMinLen..MobileMaxLen
    /\ ("extra" \in DOMAIN raw /\ "mobile" \in DOMAIN raw["extra"])
       => \/ raw["extra"]["mobile"] = None
          \/ Len(raw["extra"]["mobile"]) \in MobileMinLen..MobileMaxLen

\* C5: when validation of the payload fails, register answers with the
\* validation error and the call touches neither the table nor the session
\* and starts no send.
C5_InvalidHasNoEffect ==
    [][\A p \in Procs :
          (pc[p] = "validate" /\ pc'[p] # "validate"
           /\ (ValidationErrors(payload[p]) # {} \/ ~WellFormed(payload[p])))
          => /\ result'[p].kind = "ValidationError"
             /\ result'[p].errors # {}
             /\ resp'[p].status = 422
             /\ pc'[p] = "idle"
             /\ users' = users
             /\ mails' = mails
             /\ session' = session
             /\ enqueueLog' = enqueueLog]_vars

\* A payload with a 5-character mobile was answered 422 with the error on
\* field mobile, and nothing was stored or sent.
C5_Witness ==
    /\ users = << >>
    /\ mails = << >>
    /\ \E p \in Procs :
          /\ resp[p].status = 422
          /\ result[p].errors =
                {[loc |-> <<"mobile">>, type |-> "value_error.any_str.min_length"],
                 [loc |-> <<"extra", "mobile">>, type |-> "value_error.any_str.min_length"]}

\* A step of a background send thread.
ThreadStep == Len(mails') = Len(mails) /\ mails' # mails

\* C6: a failure of dispatch, raised while a send is being scheduled or
\* inside a background send, never makes register fail and changes neither
\* what register returns nor any stored row.
C6_DispatchFailureContained ==
    /\ [][\A p \in Procs :
            ((pc[p] \in {"send1", "send2"}) /\ pc'[p] # pc[p])
            => /\ pc'[p] \in {"send2", "return"}
               /\ result'[p] = NoResult
               /\ user'[p] = user[p]
               /\ created'[p] = created[p]
               /\ users' = users]_vars
    /\ [][ThreadStep => UNCHANGED <<users, pc, user, created, result, resp>>]_vars
    /\ [][\A p \in Procs :
            (pc[p] = "return" /\ pc'[p] # pc[p])
            => /\ result'[p].kind = "ok"
               /\ result'[p].created_new = created[p]
               /\ result'[p].user.id = user[p].id
               /\ result'[p].user.name = user[p].name
               /\ result'[p].user.email = user[p].email
               /\ result'[p].user.mobile = user[p].mobile
               /\ resp'[p].status = IF created[p] THEN 201 ELSE 409
               /\ \E i \in 1..Len(users') : users'[i] = user[p]]_vars

\* The only call so far started its first send, which failed in its thread,
\* failed to schedule its second, and was still answered 201 with its row.
C6_Witness ==
    /\ nreq = 1
    /\ enqueueLog = {1}
    /\ Len(mails) = 1
    /\ mails[1].state = "failed"
    /\ Len(users) = 1
    /\ \E p \in Procs : resp[p].status = 201 /\ result[p].user.id = users[1].id

\* C7: register returns once both sends are scheduled: its return is enabled
\* whatever the state of the background sends, pending, sent or failed.
C7_ReturnNeverWaits ==
    \A p \in Procs : pc[p] = "return" => ENABLED ProcessReturn(p)

\* The only call so far has been answered while both of its sends are pending.
C7_Witness ==
    /\ nreq = 1
    /\ Len(mails) = 2
    /\ \A i \in 1..Len(mails) : mails[i].state = "pending"
    /\ \E p \in Procs : pc[p] = "idle" /\ resp[p].status = 201

\* C8: in every call, duplicates included, the submitter's send is started
\* strictly before the admin's, and the admin's is never started in a call
\* that did not start the submitter's first.
C8_SubmitterBeforeAdmin ==
    \A j \in 1..Len(mails) :
        mails[j].kind = "admin"
        => \E i \in 1..(j - 1) : mails[i].req = mails[j].req /\ mails[i].kind = "user"

\* A duplicate call (answered 409) started both sends, and the admin's send
\* has completed while the submitter's is still pending.
C8_Witness ==
    /\ Len(users) = 1
    /\ \E p \in Procs : resp[p].status = 409
    /\ \E i, j \in 1..Len(mails) :
          /\ i < j
          /\ mails[i].req = 2 /\ mails[i].kind = "user" /\ mails[i].state = "pending"
          /\ mails[j].req = 2 /\ mails[j].kind = "admin" /\ mails[j].state = "sent"

\* The message started by the step, when the step is a send of p's call.
Started(p) == pc[p] \in {"send1", "send2"} /\ Len(mails') = Len(mails) + 1 /\ pc'[p] # pc[p]
NewMail == mails'[Len(mails')]

\* C9 as claimed: both messages carry values of the row that save_user
\* returned and none of the submission.
C9_MessagesFromRecordOnly ==
    [][\A p \in Procs :
          Started(p)
          => /\ NewMail.msg.body.name = user[p].name
             /\ NewMail.kind = "user" => NewMail.msg.recipients = <<user[p].email>>
             /\ NewMail.kind = "admin"
                => /\ NewMail.msg.body.email = user[p].email
                   /\ NewMail.msg.body.phone =
                         IF Truthy(user[p].mobile) THEN user[p].mobile ELSE Dash]_vars

\* C9 amended: both messages carry the name and address of the row that
\* save_user returned; the admin's phone is the row's mobile when the row has
\* one, and the submission's normalised extra.mobile only when the row has
\* none.  A duplicate submission whose mobile differs from the row's puts no
\* value of its own into either message.
C9_MessagesFromRecordPhoneFallback ==
    [][\A p \in Procs :
          Started(p)
          => /\ NewMail.msg.body.name = user[p].name
             /\ NewMail.msg.html.name = Esc(user[p].name)
             /\ NewMail.kind = "user" => NewMail.msg.recipients = <<user[p].email>>
             /\ NewMail.kind = "admin"
                => /\ NewMail.msg.body.email = user[p].email
                   /\ NewMail.msg.html.email = Esc(user[p].email)
                   /\ NewMail.msg.html.city = Dash
                   /\ NewMail.msg.body.phone =
                         IF Truthy(user[p].mobile) THEN user[p].mobile
                         ELSE IF validated[p].extra # NoneObj
                                 /\ Truthy(validated[p].extra.mobile)
                              THEN validated[p].extra.mobile
                         ELSE Dash
                   /\ NewMail.msg.html.phone = Esc(NewMail.msg.body.phone)]_vars

\* A duplicate call whose name and mobile differ from the row's has started
\* its admin message, which carries the row's name and mobile.
C9_Witness ==
    \E p \in Procs :
        /\ pc[p] = "return"
        /\ ~created[p]
        /\ validated[p].name # user[p].name
        /\ validated[p].extra # NoneObj
        /\ Truthy(validated[p].extra.mobile)
        /\ Truthy(user[p].mobile)
        /\ validated[p].extra.mobile # user[p].mobile
        /\ \E i \in 1..Len(mails) :
              /\ mails[i].req = rid[p]
              /\ mails[i].kind = "admin"
              /\ mails[i].msg.body.phone = user[p].mobile
              /\ mails[i].msg.body.name = user[p].name

\* C10: a row created from a payload with a non-empty profile has the
\* profile's mobile, qualification and experience in its columns and a
\* non-null extra column holding the serialised profile.
C10_ExtraStored ==
    [][\A p \in Procs :
          (pc[p] = "commit" /\ Len(users') = Len(users) + 1 /\ pc'[p] # pc[p]
           /\ DOMAIN ExtraOf(validated[p]) # {})
          => LET row == users'[Len(users')]
             IN  /\ row.mobile = validated[p].extra.mobile
                 /\ row.qualification = validated[p].extra.qualification
                 /\ row.experience = validated[p].extra.experience
                 /\ row.extra # None]_vars

\* The raw body carries profile field k under extra / at the top level.
NestedIn(raw, k) ==
    /\ "extra" \in DOMAIN raw
    /\ raw["extra"] # NoneObj
    /\ k \in DOMAIN raw["extra"]

TopLevelIn(raw, k) == k \in DOMAIN raw /\ raw[k] # None

HoldsUnderExtra(d, k, v) ==
    /\ "extra" \in DOMAIN d
    /\ d["extra"] # NoneObj
    /\ k \in DOMAIN d["extra"]
    /\ d["extra"][k] = v

\* C11: for each of mobile, qualification and experience, the extra that
\* normalisation produces holds the nested value when the field is given both
\* at the top level and under extra, holds the top-level value when the field
\* is given (non-null) at the top level only, and never holds a top-level
\* value in place of a nested one; the typed payload built from it carries
\* the same values under extra.
C11_NestedWins ==
    /\ [](\A p \in Procs : pc[p] = "validate" =>
            \A k \in ProfileKeys :
               /\ (k \in DOMAIN payload[p] /\ NestedIn(payload[p], k))
                  => HoldsUnderExtra(normalized[p], k, payload[p]["extra"][k])
               /\ (TopLevelIn(payload[p], k) /\ ~NestedIn(payload[p], k))
                  => HoldsUnderExtra(normalized[p], k, payload[p][k])
               /\ NestedIn(payload[p], k)
                  => HoldsUnderExtra(normalized[p], k, payload[p]["extra"][k]))
    /\ [][\A p \in Procs : (pc[p] = "validate" /\ pc'[p] = "query") =>
            \A k \in ProfileKeys :
               /\ NestedIn(payload[p], k)
                  => HoldsUnderExtra(validated'[p], k, payload[p]["extra"][k])
               /\ (TopLevelIn(payload[p], k) /\ ~NestedIn(payload[p], k))
                  => HoldsUnderExtra(validated'[p], k, payload[p][k])]_vars

\* A body with mobile at both levels (two different numbers) and
\* qualification at the top level only has been normalised: extra holds the
\* nested mobile and the top-level qualification.
C11_Witness ==
    \E p \in Procs :
        /\ pc[p] = "validate"
        /\ TopLevelIn(payload[p], "mobile")
        /\ NestedIn(payload[p], "mobile")
        /\ payload[p]["mobile"] = Mobile1
        /\ payload[p]["extra"]["mobile"] = Mobile2
        /\ TopLevelIn(payload[p], "qualification")
        /\ ~NestedIn(payload[p], "qualification")
        /\ HoldsUnderExtra(normalized[p], "mobile", Mobile2)
        /\ HoldsUnderExtra(normalized[p], "qualification", QualBSc)

====
